---- MODULE Spec2Model ----
(***************************************************************************)
(* Model of src/stock_monitor.py (class IntegratedStockMonitor): the       *)
(* monitoring loop run_monitor, the screening pass                         *)
(* perform_stock_screening_for_all_urls, the Differ get_new_stocks_for_url  *)
(* over the snapshot store url_stocks, the fetch with its fallback path,   *)
(* the extraction cascade of get_stocks_from_url, the validator            *)
(* _is_valid_stock_symbol and the message of format_stock_message.         *)
(***************************************************************************)
EXTENDS Integers, Sequences, FiniteSets, TLC

VARIABLES
    screener_urls,   \* self.screener_urls: the configured list of URLs
    url_stocks,      \* self.url_stocks: URL -> last stored set of stocks
    pc,              \* position of run_monitor
    idx,             \* position of the for loop over screener_urls (1-based)
    all_new_stocks,  \* the dict built by the screening pass, in insertion order
    alert_idx,       \* position of the for loop over all_new_stocks.items()
    test_results,    \* the dict built by test_all_urls, in insertion order
    sent,            \* alert messages handed to send_telegram_message in this pass
    passes,          \* number of passes of the while loop started so far
    call,            \* history: the last get_stocks_from_url call of the current pass
    pass_log,        \* history: per source processed in the current pass, its new set
    dropped,         \* history: URL -> stocks once stored for it and no longer stored
    failed_alerts,   \* history: URL -> stocks whose alert failed since its last diff
    text,            \* argument of _is_valid_stock_symbol
    result,          \* value returned by _is_valid_stock_symbol, "unset" before
    request,         \* arguments and fetches of a get_stocks_from_url run on its own
    extracted,       \* what that get_stocks_from_url returned
    new_list,        \* the list new_stocks given to format_stock_message
    message          \* the message format_stock_message returned

vars == <<screener_urls, url_stocks, pc, idx, all_new_stocks, alert_idx,
          test_results, sent, passes, call, pass_log, dropped, failed_alerts,
          text, result,
                   request, extracted, new_list, message>>

----------------------------------------------------------------------------
(* Bounds *)

MaxUrls == 2        \* longest configured list
NumIdents == 2      \* number of distinct identifiers a page can list
MaxPasses == 2      \* passes of the while loop

(* Inputs *)

Urls == {"https://scanx.trade/s", "https://finviz.com/s"}

Run(c, n) == [c |-> c, n |-> n]

\* The texts of the elements of a page. A text is kept as the sequence of its
\* runs of characters of one class (see the validator's inputs below):
\*   1  'TATA MOTORS'                      a name of 11 characters
\*   2  a name of 48 and 5 letters with two spaces between, containing 'NSE'
\*   3  'AAPL'                             a symbol
\*   4  'RELIANCE  BSE'                    a name with two spaces between
\*   5  'abc'                              lower case, no space
IdentNames ==
    << <<Run("up", 4), Run("sp", 1), Run("up", 6)>>,
       <<Run("up", 48), Run("sp", 2), Run("up", 5)>>,
       <<Run("up", 4)>>,
       <<Run("up", 8), Run("sp", 2), Run("up", 3)>>,
       <<Run("lo", 3)>> >>

\* 'NSE' in text or 'BSE' in text or '&' in text: the one test of the code that
\* looks at the characters and not at their classes.
ExchangeTagged == {IdentNames[2], IdentNames[4]}

Idents == {IdentNames[i] : i \in 1..NumIdents}

UrlLists == UNION {[1..n -> Urls] : n \in 0..MaxUrls}

\* The structural queries made on a page.
QRows == "table tbody tr"

QNamed == "[class*=stock], [class*=name], [data-stock]"

QCells == "td, div, span"

QTr == "tr"

default_selectors ==
    [finviz |-> <<".screener-link", ".screener-body-cell">>,
     scanx |-> <<"table tbody tr td:first-child", "tr td:first-child", "td:first-child",
                 ".stock-name", "[data-stock-name]", "td">>,
     unknown |-> <<".stock-symbol", ".ticker", ".symbol", "[data-symbol]", ".stock",
                   ".ticker-symbol">>]

Selectors == {default_selectors.finviz[i] : i \in DOMAIN default_selectors.finviz}
             \cup {default_selectors.scanx[i] : i \in DOMAIN default_selectors.scanx}

Queries == {QRows, QNamed, QCells, QTr} \cup Selectors

\* What a query gives on a page: it raises, or it matches elements, kept by
\* the set of their texts (for QRows the first cells of the rows, for QTr the
\* first three cells of the rows).
Outcome(raises, texts) == [raises |-> raises, texts |-> texts]

NoMatch == Outcome(FALSE, {})

\* A fetched page is what each query gives on it. The pages of the monitor:
\* the rows give a, every selector of the profile gives p, the tr scan gives t.
SimplePage(a, p, t) ==
    [q \in Queries |-> IF q = QRows THEN Outcome(FALSE, a)
                       ELSE IF q \in Selectors THEN Outcome(FALSE, p)
                       ELSE IF q = QTr THEN Outcome(FALSE, t)
                       ELSE NoMatch]

Docs == {SimplePage(a, p, t) : a \in SUBSET Idents, p \in SUBSET Idents, t \in SUBSET Idents}

EmptyDoc == [q \in Queries |-> NoMatch]

\* Outcome of one requests.get plus the parse of its body:
\*   ok          status 200 and the body parsed
\*   http_error  any other status (the body is not looked at)
\*   error       an exception (network error, timeout, parse failure)
\*   cors_error  an exception whose text contains 'CORS' or 'ClientException'
Responses == [kind : {"ok", "http_error"}, doc : Docs]
             \cup [kind : {"error", "cors_error"}, doc : {EmptyDoc}]

NoFetch == [kind |-> "none", doc |-> EmptyDoc]

Range(s) == {s[i] : i \in DOMAIN s}

MaxRuns == 3        \* runs of characters in the body of an input text
MaxPad == 1         \* spaces put before and after the body

\* A text is kept as the sequence of its runs of characters of one class, a run
\* being [c |-> class, n |-> length] and neighbouring runs differing in class:
\*   sp  the space ' '            ws  other whitespace (tab, newline)
\*   up  A-Z     lo  a-z     dg  0-9     dot  '.'     pu  any other character
\* Every operation of the validator depends on the classes only.
InputClasses == {"sp", "up", "lo", "dg", "dot"}

RunLens == {1, 2, 3, 5, 6, 10, 48, 49}

RECURSIVE Merge(_)
\* joins neighbouring runs of the same class
Merge(t) ==
    IF Len(t) < 2 THEN t
    ELSE IF t[1].c = t[2].c
         THEN Merge(<<Run(t[1].c, t[1].n + t[2].n)>> \o SubSeq(t, 3, Len(t)))
         ELSE <<t[1]>> \o Merge(Tail(t))

Pad(k) == IF k = 0 THEN <<>> ELSE <<Run("sp", k)>>

Bodies == UNION {[1..k -> [c : InputClasses, n : RunLens]] : k \in 0..MaxRuns}

Texts == {Merge(Pad(l) \o b \o Pad(r)) : l \in 0..MaxPad, r \in 0..MaxPad, b \in Bodies}

----------------------------------------------------------------------------
(* Pure parts *)

\* new_stocks = current_stocks - last_stocks
NewStocksEverSeen(url, current_stocks, last_stocks) ==
    current_stocks \ (last_stocks \cup dropped[url])

NewStocks(url, current_stocks, last_stocks) == current_stocks \ last_stocks

\* if current_stocks: self.url_stocks[url] = current_stocks
UpdatedStoreAlways(store, url, current_stocks) ==
    [store EXCEPT ![url] = current_stocks]

UpdatedStoreUnion(store, url, current_stocks) ==
    IF current_stocks # {}
    THEN [store EXCEPT ![url] = @ \cup current_stocks]
    ELSE store

UpdatedStore(store, url, current_stocks) ==
    IF current_stocks # {}
    THEN [store EXCEPT ![url] = current_stocks]
    ELSE store

\* d[k] = v on a dict kept as the sequence of its items in insertion order
DictSet(d, k, v) ==
    IF \E i \in DOMAIN d : d[i].url = k
    THEN [i \in DOMAIN d |-> IF d[i].url = k THEN [url |-> k, value |-> v] ELSE d[i]]
    ELSE Append(d, [url |-> k, value |-> v])

DictHas(d, k) == \E i \in DOMAIN d : d[i].url = k

DictGet(d, k) == d[CHOOSE i \in DOMAIN d : d[i].url = k].value

----------------------------------------------------------------------------
(* The validator *)

MaxTextLen == 50    \* len(text) > 50, len(clean_text) <= 50

MinNameLen == 3     \* 3 <= len(clean_text)

RECURSIVE TextLen(_)
\* len(text)
TextLen(t) == IF t = <<>> THEN 0 ELSE t[1].n + TextLen(Tail(t))

IsWhitespace(c) == c \in {"sp", "ws"}

RECURSIVE lstrip(_)
lstrip(t) == IF t # <<>> /\ IsWhitespace(t[1].c) THEN lstrip(Tail(t)) ELSE t

RECURSIVE rstrip(_)
rstrip(t) ==
    IF t # <<>> /\ IsWhitespace(t[Len(t)].c) THEN rstrip(SubSeq(t, 1, Len(t) - 1)) ELSE t

\* text.strip()
strip(t) == rstrip(lstrip(t))

\* ' ' in text
HasSpace(t) == \E i \in DOMAIN t : t[i].c = "sp"

IsAlnum(r) == r.c \in {"up", "lo", "dg"}

\* re.sub(r'[^A-Za-z0-9]', '', text)
StripNonAlnum(t) == Merge(SelectSeq(t, IsAlnum))

\* The patterns, each a sequence of items [c, lo, hi]: lo to hi characters of
\* class c. Neighbouring items differ in class, so a text matches ^items$ iff
\* its runs are the items' classes in order with lengths in range.
Item(c, lo, hi) == [c |-> c, lo |-> lo, hi |-> hi]

patterns ==
    << <<Item("up", 1, 5)>>,
       <<Item("up", 1, 4), Item("dot", 1, 1), Item("up", 1, 2)>>,
       <<Item("up", 1, 3), Item("dg", 1, 2)>>,
       <<Item("up", 2, 15)>>,
       <<Item("up", 1, 10), Item("dg", 1, 2)>> >>

\* re.match(pattern, text)
Matches(p, t) ==
    /\ Len(t) = Len(p)
    /\ \A i \in DOMAIN p : t[i].c = p[i].c /\ p[i].lo <= t[i].n /\ t[i].n <= p[i].hi

_is_valid_stock_symbol(t) ==
    IF t = <<>> \/ TextLen(t) > MaxTextLen THEN FALSE
    ELSE LET clean_text == strip(t)
         IN IF clean_text = <<>> THEN FALSE
            ELSE IF HasSpace(clean_text)
                 THEN MinNameLen <= TextLen(clean_text) /\ TextLen(clean_text) <= MaxTextLen
                 ELSE LET symbol_text == StripNonAlnum(clean_text)
                      IN IF symbol_text = <<>> THEN FALSE
                         ELSE \E k \in DOMAIN patterns : Matches(patterns[k], symbol_text)

----------------------------------------------------------------------------
(* The extraction *)

\* 'scanx.trade' in urlparse(url).hostname.lower()
IsScanx(url) == url = "https://scanx.trade/s"

_get_default_selectors(url) ==
    IF url = "https://finviz.com/s" THEN default_selectors.finviz
    ELSE IF IsScanx(url) THEN default_selectors.scanx
    ELSE default_selectors.unknown

\* re.sub(r'\s+', ' ', text): every run of whitespace becomes one space
CollapseRun(r) == IF IsWhitespace(r.c) THEN Run("sp", 1) ELSE r

RECURSIVE Squeeze(_)
Squeeze(t) ==
    IF Len(t) < 2 THEN t
    ELSE IF t[1].c = "sp" /\ t[2].c = "sp"
         THEN Squeeze(Tail(t))
         ELSE <<t[1]>> \o Squeeze(Tail(t))

Collapse(t) == Squeeze([i \in DOMAIN t |-> CollapseRun(t[i])])

\* clean_name of the scanX methods
clean_name(t) == strip(Collapse(strip(t)))

\* Methods 1 and 2 of the scanX stage keep the clean name of a text of more
\* than 3 characters when it has a space and at least 5 characters.
ScanxKeeps(t) ==
    LET name == clean_name(t)
    IN  /\ TextLen(strip(t)) > 3
        /\ HasSpace(name)
        /\ TextLen(name) >= 5

\* Method 3 keeps a text of 11 to 99 characters with a space and 'NSE', 'BSE'
\* or '&' in it.
ScanxKeepsTagged(t) ==
    LET stripped == strip(t)
    IN  /\ 10 < TextLen(stripped) /\ TextLen(stripped) < 100
        /\ HasSpace(stripped)
        /\ t \in ExchangeTagged
        /\ TextLen(clean_name(t)) >= 5

\* The verdicts on the texts of the pages, computed once.
PageTexts == {IdentNames[i] : i \in DOMAIN IdentNames}

CleanNames == [t \in PageTexts |-> clean_name(t)]

ScanxKept == {t \in PageTexts : ScanxKeeps(t)}

ScanxKeptTagged == {t \in PageTexts : ScanxKeepsTagged(t)}

ScanxNames(texts) == {CleanNames[t] : t \in texts \cap ScanxKept}

ScanxTaggedNames(texts) == {CleanNames[t] : t \in texts \cap ScanxKeptTagged}

\* The three methods sit in one try block: a query that raises ends the stage
\* with what was collected before it, which is nothing, since a method runs
\* only while nothing was collected.
_extract_from_scanx(doc) ==
    LET rows == ScanxNames(doc[QRows].texts)
        named == ScanxNames(doc[QNamed].texts)
    IN  IF doc[QRows].raises THEN {}
        ELSE IF rows # {} THEN rows
        ELSE IF doc[QNamed].raises THEN {}
        ELSE IF named # {} THEN named
        ELSE IF doc[QCells].raises THEN {}
        ELSE ScanxTaggedNames(doc[QCells].texts)

\* The texts of a set of elements that pass the validator, stripped.
Stripped == [t \in PageTexts |-> strip(t)]

Validated == {t \in PageTexts : _is_valid_stock_symbol(strip(t))}

AcceptedAll(texts) == {Stripped[t] : t \in texts}

Accepted(texts) == {Stripped[t] : t \in texts \cap Validated}

\* The two scans of the table stage sit in one try block as well.
_extract_from_tables(doc) ==
    LET cells == Accepted(doc[QTr].texts)
    IN  IF doc[QTr].raises THEN {}
        ELSE IF cells # {} THEN cells
        ELSE IF doc[QNamed].raises THEN {}
        ELSE Accepted(doc[QNamed].texts)

\* What one selector of the profile adds to stocks: nothing when it raises.
SelectorYield(doc, selector) ==
    IF doc[selector].raises THEN {} ELSE Accepted(doc[selector].texts)

RECURSIVE SelectorLoopNoBreak(_, _)
SelectorLoopNoBreak(doc, selectors) ==
    IF selectors = <<>> THEN {}
    ELSE SelectorYield(doc, selectors[1]) \cup SelectorLoopNoBreak(doc, Tail(selectors))

RECURSIVE SelectorLoop(_, _)
\* "for selector in selectors", left at the first selector that found stocks
SelectorLoop(doc, selectors) ==
    IF selectors = <<>> THEN {}
    ELSE LET found == SelectorYield(doc, selectors[1])
         IN  IF found # {} THEN found ELSE SelectorLoop(doc, Tail(selectors))

\* The stage that gives the result of the cascade on a parsed page.
ExtractStage(url, doc) ==
    IF IsScanx(url) /\ _extract_from_scanx(doc) # {} THEN "scanx"
    ELSE IF SelectorLoop(doc, _get_default_selectors(url)) # {} THEN "profile"
    ELSE "tables"

\* The cascade run on a parsed page: the scanX stage for that domain, then the
\* selectors of the profile, then the table scan.
Extract(url, doc) ==
    LET scanx == _extract_from_scanx(doc)
        found == SelectorLoop(doc, _get_default_selectors(url))
    IN  IF IsScanx(url) /\ scanx # {} THEN scanx
        ELSE IF found # {} THEN found
        ELSE _extract_from_tables(doc)

_get_stocks_with_fallback(fb) ==
    IF fb.kind = "ok" THEN _extract_from_scanx(fb.doc) ELSE {}

\* The fallback fetch is made only from the except branch, for a CORS-like text.
TakesFallbackAnyError(resp) == resp.kind \in {"error", "cors_error"}

TakesFallback(resp) == resp.kind = "cors_error"

get_stocks_from_url_NoStatusCheck(url, resp, fb) ==
    IF resp.kind \in {"ok", "http_error"} THEN Extract(url, resp.doc)
    ELSE IF TakesFallback(resp) THEN _get_stocks_with_fallback(fb)
    ELSE {}

get_stocks_from_url(url, resp, fb) ==
    IF resp.kind = "ok" THEN Extract(url, resp.doc)
    ELSE IF TakesFallback(resp) THEN _get_stocks_with_fallback(fb)
    ELSE {}

\* The part of get_stocks_from_url that gave its result.
StageOf(url, resp, fb) ==
    IF resp.kind = "ok" THEN ExtractStage(url, resp.doc)
    ELSE IF TakesFallback(resp) THEN "fallback"
    ELSE "none"

\* The requests.get calls made by one get_stocks_from_url.
Fetches(resp) ==
    IF TakesFallback(resp) THEN <<"primary", "fallback">> ELSE <<"primary">>

----------------------------------------------------------------------------
(* The monitor *)

\* The record kept of a get_stocks_from_url call: op is "test" for test_all_urls
\* and "diff" for get_new_stocks_for_url, pos the position in screener_urls.
NoCall == [op |-> "none"]

CallRecord(op, pos, url, resp, fb, current_stocks, last_stocks, new_stocks) ==
    [op |-> op,
     pos |-> pos,
     url |-> url,
     primary |-> resp.kind,
     fallback |-> fb.kind,
     fetches |-> Fetches(resp),
     stage |-> StageOf(url, resp, fb),
     current_stocks |-> current_stocks,
     last_stocks |-> last_stocks,
     new_stocks |-> new_stocks,
     reappeared |-> IF op = "diff" THEN current_stocks \cap dropped[url] ELSE {},
     unsent |-> IF op = "diff" THEN current_stocks \cap failed_alerts[url] ELSE {}]

\* The fallback response is an input only when the fallback fetch is made.
FallbackResponses(resp) == IF TakesFallback(resp) THEN Responses ELSE {NoFetch}

NoRequest == [url |-> "", resp |-> NoFetch, fb |-> NoFetch]

NotExtracted == [done |-> FALSE, stocks |-> {}, stage |-> "none"]

NoMessage == [form |-> "none", count |-> <<>>, stocks |-> <<>>, more |-> <<>>,
              source |-> "", link |-> ""]

working_urls == {test_results[i].url : i \in {k \in DOMAIN test_results : test_results[k].value}}

Init ==
    /\ screener_urls \in UrlLists
    /\ url_stocks = [u \in Range(screener_urls) |-> {}]
    /\ pc = "test"
    /\ idx = 1
    /\ all_new_stocks = <<>>
    /\ alert_idx = 1
    /\ test_results = <<>>
    /\ sent = <<>>
    /\ passes = 0
    /\ call = NoCall
    /\ pass_log = <<>>
    /\ dropped = [u \in Range(screener_urls) |-> {}]
    /\ failed_alerts = [u \in Range(screener_urls) |-> {}]
    /\ text = <<>>
    /\ result = "unset"
    /\ request = NoRequest
    /\ extracted = NotExtracted
    /\ new_list = <<>>
    /\ message = NoMessage

\* test_all_urls, one iteration of its for loop
TestUrl ==
    /\ pc = "test"
    /\ idx <= Len(screener_urls)
    /\ \E resp \in Responses : \E fb \in FallbackResponses(resp) :
         LET url == screener_urls[idx]
             stocks == get_stocks_from_url(url, resp, fb)
         IN /\ test_results' = DictSet(test_results, url, stocks # {})
            /\ call' = CallRecord("test", idx, url, resp, fb, stocks, url_stocks[url], {})
    /\ idx' = idx + 1
    /\ UNCHANGED <<screener_urls, url_stocks, pc, all_new_stocks, alert_idx, sent,
                   passes, pass_log, dropped, failed_alerts, text, result,
                   request, extracted, new_list, message>>

\* run_monitor: "if not working_urls: ... return"
NoWorkingUrls ==
    /\ pc = "test"
    /\ idx > Len(screener_urls)
    /\ working_urls = {}
    /\ pc' = "returned"
    /\ UNCHANGED <<screener_urls, url_stocks, idx, all_new_stocks, alert_idx,
                   test_results, sent, passes, call, pass_log, dropped, failed_alerts,
                   text, result,
                   request, extracted, new_list, message>>

\* run_monitor: the startup message is sent (its result is ignored) and the
\* initial screening begins
StartMonitoring ==
    /\ pc = "test"
    /\ idx > Len(screener_urls)
    /\ working_urls # {}
    /\ pc' = "initial"
    /\ idx' = 1
    /\ all_new_stocks' = <<>>
    /\ call' = NoCall
    /\ UNCHANGED <<screener_urls, url_stocks, alert_idx, test_results, sent, passes,
                   pass_log, dropped, failed_alerts, text, result,
                   request, extracted, new_list, message>>

\* The primary fetch of the source did not end in a parsed 200 response.
Failed(resp) == resp.kind # "ok"

\* perform_stock_screening_for_all_urls, one iteration of its for loop:
\* get_new_stocks_for_url(url) and all_new_stocks[url] = new_stocks.
\* get_stocks_from_url catches every Exception, so the loop goes on to next_idx
\* = i + 1 in the same place next_pc whatever the fetch did.
Screen(i, resp, fb, next_idx, next_pc) ==
    LET url == screener_urls[i]
        current_stocks == get_stocks_from_url(url, resp, fb)
        last_stocks == url_stocks[url]
        new_stocks == NewStocks(url, current_stocks, last_stocks)
        store == UpdatedStore(url_stocks, url, current_stocks)
    IN /\ url_stocks' = store
       /\ all_new_stocks' = DictSet(all_new_stocks, url, new_stocks)
       /\ call' = CallRecord("diff", i, url, resp, fb, current_stocks, last_stocks, new_stocks)
       /\ pass_log' = Append(pass_log, [url |-> url, stocks |-> new_stocks,
                                         failed |-> Failed(resp)])
       /\ dropped' = [dropped EXCEPT ![url] = (@ \cup last_stocks) \ store[url]]
       /\ failed_alerts' = [failed_alerts EXCEPT ![url] = {}]
       /\ idx' = next_idx
       /\ pc' = next_pc
       /\ UNCHANGED <<screener_urls, alert_idx, test_results, sent, passes, text, result,
                   request, extracted, new_list, message>>

ScreenSourceAbortPass ==
    /\ pc \in {"initial", "screen"}
    /\ idx <= Len(screener_urls)
    /\ \E resp \in Responses : \E fb \in FallbackResponses(resp) :
         Screen(idx, resp, fb,
                IF Failed(resp) THEN Len(screener_urls) + 1 ELSE idx + 1, pc)

ScreenSourceAbortLoop ==
    /\ pc \in {"initial", "screen"}
    /\ idx <= Len(screener_urls)
    /\ \E resp \in Responses : \E fb \in FallbackResponses(resp) :
         Screen(idx, resp, fb, idx + 1, IF Failed(resp) THEN "returned" ELSE pc)

ScreenSource ==
    /\ pc \in {"initial", "screen"}
    /\ idx <= Len(screener_urls)
    /\ \E resp \in Responses : \E fb \in FallbackResponses(resp) :
         Screen(idx, resp, fb, idx + 1, pc)

\* run_monitor: the initial screening returns and its result is dropped
FinishInitial ==
    /\ pc = "initial"
    /\ idx > Len(screener_urls)
    /\ pc' = "sleep"
    /\ all_new_stocks' = <<>>
    /\ pass_log' = <<>>
    /\ UNCHANGED <<screener_urls, url_stocks, idx, alert_idx, test_results, sent,
                   passes, call, dropped, failed_alerts, text, result,
                   request, extracted, new_list, message>>

\* run_monitor: time.sleep(check_interval) returns and a screening pass begins
StartPass ==
    /\ pc = "sleep"
    /\ passes < MaxPasses
    /\ pc' = "screen"
    /\ passes' = passes + 1
    /\ idx' = 1
    /\ all_new_stocks' = <<>>
    /\ call' = NoCall
    /\ pass_log' = <<>>
    /\ sent' = <<>>
    /\ UNCHANGED <<screener_urls, url_stocks, alert_idx, test_results, dropped,
                   failed_alerts, text, result,
                   request, extracted, new_list, message>>

\* run_monitor: the screening pass returns all_new_stocks
BeginAlerts ==
    /\ pc = "screen"
    /\ idx > Len(screener_urls)
    /\ pc' = "notify"
    /\ alert_idx' = 1
    /\ UNCHANGED <<screener_urls, url_stocks, idx, all_new_stocks, test_results, sent,
                   passes, call, pass_log, dropped, failed_alerts, text, result,
                   request, extracted, new_list, message>>

\* run_monitor, one iteration of "for url, new_stocks in all_new_stocks.items()":
\* a message is sent when new_stocks is not empty; ok is what
\* send_telegram_message returns. The store is left as it is.
Alert(j, ok, store) ==
    LET url == all_new_stocks[j].url
        new_stocks == all_new_stocks[j].value
    IN /\ IF new_stocks # {}
          THEN /\ sent' = Append(sent, [url |-> url, stocks |-> new_stocks, ok |-> ok])
               /\ failed_alerts' = IF ok THEN failed_alerts
                                   ELSE [failed_alerts EXCEPT ![url] = @ \cup new_stocks]
               /\ url_stocks' = store
          ELSE /\ ok
               /\ UNCHANGED <<sent, failed_alerts, url_stocks>>
       /\ alert_idx' = j + 1
       /\ UNCHANGED <<screener_urls, pc, idx, all_new_stocks, test_results, passes,
                      call, pass_log, dropped, text, result,
                   request, extracted, new_list, message>>

SendAlertRollback ==
    /\ pc = "notify"
    /\ alert_idx <= Len(all_new_stocks)
    /\ \E ok \in BOOLEAN :
         Alert(alert_idx, ok,
               IF ok THEN url_stocks
               ELSE [url_stocks EXCEPT ![all_new_stocks[alert_idx].url] =
                                           @ \ all_new_stocks[alert_idx].value])

SendAlert ==
    /\ pc = "notify"
    /\ alert_idx <= Len(all_new_stocks)
    /\ \E ok \in BOOLEAN : Alert(alert_idx, ok, url_stocks)

\* run_monitor: the for loop over the items ends, back to the top of the while
FinishAlerts ==
    /\ pc = "notify"
    /\ alert_idx > Len(all_new_stocks)
    /\ pc' = "sleep"
    /\ UNCHANGED <<screener_urls, url_stocks, idx, all_new_stocks, alert_idx,
                   test_results, sent, passes, call, pass_log, dropped, failed_alerts,
                   text, result,
                   request, extracted, new_list, message>>

\* KeyboardInterrupt: inside the while loop it is caught, the stop message is
\* sent and the loop breaks; before the loop it leaves run_monitor directly.
Interrupt ==
    /\ pc \in {"test", "initial", "sleep", "screen", "notify"}
    /\ pc' = "interrupted"
    /\ UNCHANGED <<screener_urls, url_stocks, idx, all_new_stocks, alert_idx,
                   test_results, sent, passes, call, pass_log, dropped, failed_alerts,
                   text, result,
                   request, extracted, new_list, message>>

Next ==
    \/ TestUrl
    \/ NoWorkingUrls
    \/ StartMonitoring
    \/ ScreenSource
    \/ FinishInitial
    \/ StartPass
    \/ BeginAlerts
    \/ SendAlert
    \/ FinishAlerts
    \/ Interrupt

Spec == Init /\ [][Next]_vars

----------------------------------------------------------------------------
(* Properties of the Differ *)

IsDiff == call.op = "diff"

\* C1: when the Differ runs with an empty extracted set for a source whose
\* stored snapshot is not empty, it returns the empty set and leaves the
\* snapshot as it was; and no step replaces a non-empty snapshot by an empty one.
C1_EmptyExtractionKeepsSnapshot ==
    /\ [](IsDiff /\ call.current_stocks = {} /\ call.last_stocks # {}
            => /\ call.new_stocks = {}
               /\ url_stocks[call.url] = call.last_stocks)
    /\ [][\A u \in DOMAIN url_stocks : url_stocks[u] # {} => url_stocks'[u] # {}]_vars

C1_Witness ==
    /\ IsDiff
    /\ call.current_stocks = {}
    /\ call.last_stocks # {}
    /\ url_stocks[call.url] = call.last_stocks

\* C2: the Differ returns exactly the extracted set minus the previous snapshot,
\* and after a non-empty extraction the stored snapshot is exactly the
\* extracted set (a replacement, not a union), also when nothing is new.
C2_DiffIsSetDifferenceAndReplaces ==
    IsDiff =>
        /\ call.new_stocks = {x \in call.current_stocks : x \notin call.last_stocks}
        /\ call.current_stocks # {} => url_stocks[call.url] = call.current_stocks

\* a non-empty extraction that drops a stored identifier and brings nothing new
C2_Witness ==
    /\ IsDiff
    /\ call.current_stocks # {}
    /\ call.new_stocks = {}
    /\ call.last_stocks \ call.current_stocks # {}
    /\ url_stocks[call.url] = call.current_stocks

\* C3: an identifier that was in the snapshot of a source, dropped out of it by
\* a later non-empty extraction and is extracted again is reported as new; an
\* identifier that is extracted and already in the snapshot is not reported.
C3_ReappearanceIsNewOnce ==
    IsDiff =>
        /\ \A x \in call.reappeared : x \in call.new_stocks
        /\ \A x \in call.current_stocks \cap call.last_stocks : x \notin call.new_stocks

C3_Witness ==
    /\ IsDiff
    /\ call.reappeared # {}
    /\ call.reappeared \subseteq call.new_stocks

----------------------------------------------------------------------------
(* Properties of the fetch *)

FallbackSucceeded == call.primary = "cors_error" /\ call.fallback = "ok"

\* C4 as stated: whenever, in a pass, the fetch of a source does not end in a parsed 200
\* response, the extraction result is empty and the snapshot is not modified.
C4_FailedFetchYieldsEmpty ==
    IsDiff /\ call.primary # "ok"
        => /\ call.current_stocks = {}
           /\ url_stocks[call.url] = call.last_stocks

\* C4 amended: the same, unless the failure was an exception whose text has
\* 'CORS' or 'ClientException' and the fallback fetch ended in a 200 response.
C4_FailedFetchWithoutFallbackYieldsEmpty ==
    IsDiff /\ call.primary # "ok" /\ ~FallbackSucceeded
        => /\ call.current_stocks = {}
           /\ url_stocks[call.url] = call.last_stocks

C4_Witness ==
    /\ IsDiff
    /\ call.primary = "http_error"
    /\ call.last_stocks # {}
    /\ url_stocks[call.url] = call.last_stocks

\* C5 as stated: within one pass each configured source is fetched at most
\* once (a failed fetch is repeated only by the next pass).
C5_OneFetchPerSourcePerPass ==
    IsDiff => /\ call.pos = idx - 1
              /\ Len(call.fetches) <= 1

\* C5 amended: within one pass each position of the list is processed once, by
\* one primary fetch, followed at once by a single fallback fetch exactly when
\* the primary attempt raised an exception whose text has 'CORS' or
\* 'ClientException'; any other failed fetch is repeated only by the next pass.
C5_OneFetchPlusCorsFallback ==
    IsDiff => /\ call.pos = idx - 1
              /\ call.fetches = IF call.primary = "cors_error"
                                THEN <<"primary", "fallback">>
                                ELSE <<"primary">>
              /\ call.primary # "cors_error" => call.fallback = "none"

\* a plain failure (no CORS text) fetched once, the pass having moved on
C5_Witness ==
    /\ IsDiff
    /\ call.primary = "error"
    /\ call.fetches = <<"primary">>
    /\ idx = call.pos + 1

----------------------------------------------------------------------------
(* Properties of the screening pass and of the loop *)

Keys(d) == {d[k].url : k \in DOMAIN d}

InPass == pc \in {"initial", "screen"}

HasNew(e) == e.stocks # {}

Alerts(log) == [k \in DOMAIN log |-> [url |-> log[k].url, stocks |-> log[k].stocks]]

\* C7: when a pass of the loop and its sends are over, every position of the
\* list whose diff gave a non-empty new set has had its own send carrying that
\* set, also when a URL is configured twice.
C7_EveryNewSetIsSent ==
    pc = "sleep" /\ passes > 0
        => Alerts(sent) = Alerts(SelectSeq(pass_log, HasNew))

\* C8: a failed send does not roll the snapshot back: the identifiers of a
\* failed alert are in the snapshot of their source, and the next diff of that
\* source does not report those of them that are still listed.
C8_FailedSendKeepsSnapshot ==
    /\ \A k \in DOMAIN sent :
           ~sent[k].ok => sent[k].stocks \subseteq url_stocks[sent[k].url]
    /\ IsDiff => \A x \in call.unsent : x \notin call.new_stocks

\* the diff that follows a failed alert, with an identifier of it still listed
C8_Witness ==
    /\ IsDiff
    /\ call.unsent # {}
    /\ call.unsent \subseteq call.last_stocks

Continue ==
    \/ TestUrl
    \/ NoWorkingUrls
    \/ StartMonitoring
    \/ ScreenSource
    \/ FinishInitial
    \/ StartPass
    \/ BeginAlerts
    \/ SendAlert
    \/ FinishAlerts

\* C9 as stated: once started, run_monitor ends only by the user's interrupt.
C9_OnlyInterruptEndsMonitor == pc # "returned"

\* C9 amended: run_monitor returns without an interrupt only at startup, when
\* test_all_urls found no working URL; once the loop is entered no failure of
\* a source ends it: a step other than the interrupt is always possible, up to
\* the bound on the passes.
C9_OnlyStartupTestOrInterruptEndsMonitor ==
    /\ pc = "returned" => /\ working_urls = {}
                          /\ passes = 0
                          /\ call.op # "diff"
    /\ pc \in {"initial", "screen", "notify"} => ENABLED Continue
    /\ pc = "sleep" /\ passes < MaxPasses => ENABLED Continue

\* a pass of the loop in which every source failed is over and the loop sleeps
C9_Witness ==
    /\ pc = "sleep"
    /\ passes > 0
    /\ pass_log # <<>>
    /\ \A i \in DOMAIN pass_log : pass_log[i].failed

----------------------------------------------------------------------------
(* The validator on its own: every input text, validated once *)

InitValidator ==
    /\ text \in Texts
    /\ result = "unset"
    /\ screener_urls = <<>>
    /\ url_stocks = <<>>
    /\ pc = "validator"
    /\ idx = 1
    /\ all_new_stocks = <<>>
    /\ alert_idx = 1
    /\ test_results = <<>>
    /\ sent = <<>>
    /\ passes = 0
    /\ call = NoCall
    /\ pass_log = <<>>
    /\ dropped = <<>>
    /\ failed_alerts = <<>>
    /\ request = NoRequest
    /\ extracted = NotExtracted
    /\ new_list = <<>>
    /\ message = NoMessage

Validate ==
    /\ pc = "validator"
    /\ result = "unset"
    /\ result' = IF _is_valid_stock_symbol(text) THEN "True" ELSE "False"
    /\ UNCHANGED <<text, screener_urls, url_stocks, pc, idx, all_new_stocks, alert_idx,
                   test_results, sent, passes, call, pass_log, dropped, failed_alerts,
                   request, extracted, new_list, message>>

NextValidator == Validate

SpecValidator == InitValidator /\ [][NextValidator]_vars

\* C10: for every input text with an internal space the validator returns
\* true exactly when the length of the trimmed text is between 3 and 50.
C10_NameValidIffTrimmedLengthInRange ==
    result # "unset" /\ HasSpace(strip(text))
        => (result = "True"
              <=> 3 <= TextLen(strip(text)) /\ TextLen(strip(text)) <= 50)

----------------------------------------------------------------------------
(* get_stocks_from_url on its own, over pages on which single queries match *)
(* or raise                                                                 *)

NumTexts == 3       \* texts of IdentNames the queries of these pages match
MaxActive == 2      \* queries that raise or match on one page

Matched == {IdentNames[i] : i \in 1..NumTexts}

\* What a query that raises or matches something gives.
ActiveOutcomes ==
    {Outcome(TRUE, {})} \cup {Outcome(FALSE, S) : S \in (SUBSET Matched) \ {{}}}

PageOf(f) == [q \in Queries |-> IF q \in DOMAIN f THEN f[q] ELSE NoMatch]

\* The pages on which at most MaxActive of the queries Q raise or match.
PagesOver(Q) ==
    UNION {{PageOf(f) : f \in [S -> ActiveOutcomes]} :
             S \in {T \in SUBSET Q : Cardinality(T) <= MaxActive}}

\* The queries get_stocks_from_url can make on the page of a URL, and those
\* of the fallback path.
QueriesOf(url) ==
    {QTr, QNamed} \cup Range(_get_default_selectors(url))
        \cup (IF IsScanx(url) THEN {QRows, QCells} ELSE {})

FallbackQueries == {QRows, QNamed, QCells}

Requests ==
    UNION {{[url |-> u, resp |-> [kind |-> "ok", doc |-> d], fb |-> NoFetch] :
              d \in PagesOver(QueriesOf(u))} : u \in Urls}
    \cup {[url |-> u, resp |-> [kind |-> "cors_error", doc |-> EmptyDoc],
           fb |-> [kind |-> k, doc |-> d]] :
              u \in Urls, k \in {"ok", "http_error"}, d \in PagesOver(FallbackQueries)}
    \cup {[url |-> u, resp |-> [kind |-> "cors_error", doc |-> EmptyDoc],
           fb |-> [kind |-> "error", doc |-> EmptyDoc]] : u \in Urls}
    \cup {[url |-> u, resp |-> [kind |-> "http_error", doc |-> d], fb |-> NoFetch] :
              u \in Urls, d \in PagesOver({QTr})}
    \cup {[url |-> u, resp |-> [kind |-> "error", doc |-> EmptyDoc], fb |-> NoFetch] :
              u \in Urls}

InitExtract ==
    /\ request \in Requests
    /\ extracted = NotExtracted
    /\ screener_urls = <<>>
    /\ url_stocks = <<>>
    /\ pc = "extract"
    /\ idx = 1
    /\ all_new_stocks = <<>>
    /\ alert_idx = 1
    /\ test_results = <<>>
    /\ sent = <<>>
    /\ passes = 0
    /\ call = NoCall
    /\ pass_log = <<>>
    /\ dropped = <<>>
    /\ failed_alerts = <<>>
    /\ text = <<>>
    /\ result = "unset"
    /\ new_list = <<>>
    /\ message = NoMessage

GetStocks ==
    /\ pc = "extract"
    /\ ~extracted.done
    /\ extracted' = [done |-> TRUE,
                     stocks |-> get_stocks_from_url(request.url, request.resp, request.fb),
                     stage |-> StageOf(request.url, request.resp, request.fb)]
    /\ UNCHANGED <<screener_urls, url_stocks, pc, idx, all_new_stocks, alert_idx,
                   test_results, sent, passes, call, pass_log, dropped, failed_alerts,
                   text, result, request, new_list, message>>

NextExtract == GetStocks

SpecExtract == InitExtract /\ [][NextExtract]_vars

\* The selectors of the profile of the request and what each adds on its page.
ProfileOf(req) == _get_default_selectors(req.url)

YieldOf(req, k) == SelectorYield(req.resp.doc, ProfileOf(req)[k])

\* The first selector of the profile that yields an accepted candidate, 0 if none.
FirstYielding(req) ==
    IF \E k \in DOMAIN ProfileOf(req) : YieldOf(req, k) # {}
    THEN CHOOSE k \in DOMAIN ProfileOf(req) :
            /\ YieldOf(req, k) # {}
            /\ \A j \in 1..(k - 1) : YieldOf(req, j) = {}
    ELSE 0

\* C11: when the selectors of the profile are tried (the page was fetched and
\* the scanX stage returned nothing), the result of the extraction is exactly
\* what the first selector, in profile order, with an accepted candidate
\* yields: nothing of a later selector or of the table stage is added.
C11_CascadeStopsAtFirstYield ==
    (/\ extracted.done
     /\ request.resp.kind = "ok"
     /\ ~(IsScanx(request.url) /\ _extract_from_scanx(request.resp.doc) # {})
     /\ FirstYielding(request) # 0)
        => extracted.stocks = YieldOf(request, FirstYielding(request))

\* A later selector yields other candidates than the first yielding one.
C11_Witness ==
    /\ extracted.done
    /\ request.resp.kind = "ok"
    /\ extracted.stage = "profile"
    /\ \E k \in DOMAIN ProfileOf(request) :
         /\ k > FirstYielding(request)
         /\ YieldOf(request, k) \ YieldOf(request, FirstYielding(request)) # {}
    /\ extracted.stocks = YieldOf(request, FirstYielding(request))

\* The response with the query q of its page made to match nothing.
WithoutMatches(resp, q) == [resp EXCEPT !.doc = [@ EXCEPT ![q] = NoMatch]]

\* The queries that raise on the pages of the request.
Raising(req) == {q \in Queries : req.resp.doc[q].raises \/ req.fb.doc[q].raises}

\* C12: a query that raises is treated as zero results for that query: the
\* extraction returns what it returns on the same pages with that query
\* matching nothing (it adds no candidate and the cascade goes on with the
\* next strategy or stage).
C12_RaisingQueryIsZeroResults ==
    extracted.done
        => \A q \in Raising(request) :
             extracted.stocks = get_stocks_from_url(request.url,
                                                    WithoutMatches(request.resp, q),
                                                    WithoutMatches(request.fb, q))

----------------------------------------------------------------------------
(* format_stock_message on its own *)

MaxNew == 12        \* length of the list new_stocks

ListLimit == 10

\* The lists new_stocks: run_monitor formats a list only when it is not empty
\* (l.513). The stocks are numbered; a list holds 1..n in order or reversed,
\* starting anywhere.
Rotated(n, r) == [i \in 1..n |-> ((i + r - 1) % n) + 1]

Reversed(list) == [i \in 1..Len(list) |-> list[Len(list) + 1 - i]]

NewLists ==
    UNION {{Rotated(n, r) : r \in 0..(n - 1)} \cup {Reversed(Rotated(n, r)) : r \in 0..(n - 1)} :
             n \in 1..MaxNew}

\* urlparse(url).hostname
Hostname(url) == IF IsScanx(url) THEN "scanx.trade" ELSE "finviz.com"

\* new_stocks[:k]
Slice(list, k) == SubSeq(list, 1, IF Len(list) < k THEN Len(list) ELSE k)

\* The message, by its parts: the count written in the plural header, the
\* stock lines in order, the number written in the '... and k more' line
\* (more is empty when there is no such line), the source and the link. The
\* time of detection is left out; the except branch is not reached for a
\* list of strings.
format_stock_message_MoreFromLimit(url, new_stocks) ==
    IF Len(new_stocks) = 1
    THEN [form |-> "singular", count |-> <<>>, stocks |-> <<new_stocks[1]>>,
          more |-> <<>>, source |-> Hostname(url), link |-> url]
    ELSE [form |-> "plural", count |-> <<Len(new_stocks)>>,
          stocks |-> Slice(new_stocks, ListLimit),
          more |-> IF Len(new_stocks) >= ListLimit
                   THEN <<Len(new_stocks) - ListLimit>> ELSE <<>>,
          source |-> Hostname(url), link |-> url]

format_stock_message(url, new_stocks) ==
    IF Len(new_stocks) = 1
    THEN [form |-> "singular", count |-> <<>>, stocks |-> <<new_stocks[1]>>,
          more |-> <<>>, source |-> Hostname(url), link |-> url]
    ELSE [form |-> "plural", count |-> <<Len(new_stocks)>>,
          stocks |-> Slice(new_stocks, ListLimit),
          more |-> IF Len(new_stocks) > ListLimit
                   THEN <<Len(new_stocks) - ListLimit>> ELSE <<>>,
          source |-> Hostname(url), link |-> url]

InitFormat ==
    /\ request \in [url : Urls, resp : {NoFetch}, fb : {NoFetch}]
    /\ new_list \in NewLists
    /\ message = NoMessage
    /\ extracted = NotExtracted
    /\ screener_urls = <<>>
    /\ url_stocks = <<>>
    /\ pc = "format"
    /\ idx = 1
    /\ all_new_stocks = <<>>
    /\ alert_idx = 1
    /\ test_results = <<>>
    /\ sent = <<>>
    /\ passes = 0
    /\ call = NoCall
    /\ pass_log = <<>>
    /\ dropped = <<>>
    /\ failed_alerts = <<>>
    /\ text = <<>>
    /\ result = "unset"

Format ==
    /\ pc = "format"
    /\ message = NoMessage
    /\ message' = format_stock_message(request.url, new_list)
    /\ UNCHANGED <<screener_urls, url_stocks, pc, idx, all_new_stocks, alert_idx,
                   test_results, sent, passes, call, pass_log, dropped, failed_alerts,
                   text, result, request, extracted, new_list>>

NextFormat == Format

SpecFormat == InitFormat /\ [][NextFormat]_vars

\* C13: the message for exactly one new stock is the singular form naming that
\* stock; the message for n > 1 new stocks lists min(n, 10) of them, the first
\* 10 in the order of the list, and has a remainder line, saying n - 10 more,
\* exactly when n > 10.
C13_MessageListsFirstTenAndRemainder ==
    message # NoMessage
        => LET n == Len(new_list)
               listed == IF n < 10 THEN n ELSE 10
           IN  /\ n = 1 => /\ message.form = "singular"
                           /\ message.stocks = <<new_list[1]>>
               /\ n > 1 => /\ message.form = "plural"
                           /\ Len(message.stocks) = listed
                           /\ \A i \in 1..listed : message.stocks[i] = new_list[i]
                           /\ message.more # <<>> <=> n > 10
                           /\ n > 10 => message.more = <<n - 10>>

\* 12 stocks: the first 10 and a line saying 2 more.
C13_Witness ==
    /\ message # NoMessage
    /\ Len(new_list) = 12
    /\ message.stocks = SubSeq(new_list, 1, 10)
    /\ message.more = <<2>>

----------------------------------------------------------------------------
(* The identifiers the monitor holds *)

\* What the scanX methods give: a cleaned text with a space and at least 5
\* characters. It need not pass the validator: no method calls it, Methods 1
\* and 2 put no upper limit on the length and Method 3 admits 99 characters.
IsScanxName(t) == HasSpace(t) /\ TextLen(t) >= 5 /\ clean_name(t) = t

Snapshots == UNION {url_stocks[u] : u \in DOMAIN url_stocks}

\* C14 as claimed: every member of every stored snapshot and of every reported
\* new set passed the validator, whichever stage of the extraction gave it.
C14_EveryIdentifierPassedValidator ==
    /\ \A t \in Snapshots : _is_valid_stock_symbol(t)
    /\ IsDiff => \A t \in call.new_stocks : _is_valid_stock_symbol(t)

\* C14 as amended: what the profile stage or the table stage returned passed
\* the validator; what the scanX stage or the fallback path returned is a
\* scanX name; every stored identifier is one or the other.
C14_ValidatedUnlessFromScanx ==
    /\ call.op # "none" =>
         /\ call.stage \in {"profile", "tables"}
              => \A t \in call.current_stocks : _is_valid_stock_symbol(t)
         /\ call.stage \in {"scanx", "fallback"}
              => \A t \in call.current_stocks : IsScanxName(t)
    /\ \A t \in Snapshots : _is_valid_stock_symbol(t) \/ IsScanxName(t)
    /\ IsDiff => \A t \in call.new_stocks : _is_valid_stock_symbol(t) \/ IsScanxName(t)

\* A name the scanX stage returned is stored and reported as new, and the
\* validator rejects it.
C14_Witness ==
    /\ IsDiff
    /\ call.stage \in {"scanx", "fallback"}
    /\ \E t \in call.new_stocks :
         /\ t \in url_stocks[call.url]
         /\ IsScanxName(t)
         /\ ~_is_valid_stock_symbol(t)

====
